---- MODULE Spec2Model ----
(***************************************************************************)
(* Model of the ATX bench power-supply panel firmware (src/src/main.cpp):  *)
(* the median-window sampler analogReadMedianFiltered, the scaling done in *)
(* loop(), the digit encoder displayFloat and the polling loop itself.     *)
(*                                                                         *)
(* Floats are IEEE-754 single precision values, kept as records            *)
(* [s, m, e] standing for (-1)^s * m * 2^e with 2^23 <= m < 2^24 (or       *)
(* m = 0), and every float operation of the source is computed with        *)
(* round-to-nearest-even on that representation.  Characters are their     *)
(* ASCII codes.  C arrays keep their 0-based indices.                      *)
(***************************************************************************)
EXTENDS Integers, Sequences, FiniteSets, Bags, TLC

(***************************************************************************)
(* Bounds of the model.                                                    *)
(***************************************************************************)
\* Window size used by loop(); the source sets SAMPLE_CNT to 250
\* (main.cpp:38), the model runs the same code on a shorter window.
SAMPLE_CNT == 10
\* Largest window size tried when analogReadMedianFiltered is checked alone.
MaxWindow == 12

(***************************************************************************)
(* Program constants.                                                      *)
(***************************************************************************)
\* the averaging at main.cpp:125-128 takes 10 values, 5 on each side of the
\* midpoint
MeanCount == 10
HalfMean == 5
\* full scale of the 10-bit ADC, the divisor 1023.0f at main.cpp:147,158
ADC_FULL_SCALE == 1023
\* char str[32] is written by dtostrf(val, 4, 2, str)
DTOSTRF_WIDTH == 4
\* accepted string length, main.cpp:72
MaxValLen == 5
\* number of digit positions of one MAX72XX bank
NumDigits == 8

(***************************************************************************)
(* Single precision arithmetic.                                            *)
(***************************************************************************)
MantBits == 24
TwoP23 == 8388608
TwoP24 == 16777216
TwoP12 == 4096

FZero == [s |-> 0, m |-> 0, e |-> 0]

RECURSIVE Normalize(_, _, _)
\* the float with sign s and value m * 2^e, for 0 <= m < 2^24 (exact)
Normalize(s, m, e) ==
    IF m = 0 THEN [s |-> s, m |-> 0, e |-> 0]
    ELSE IF m < TwoP23 THEN Normalize(s, 2 * m, e - 1)
    ELSE [s |-> s, m |-> m, e |-> e]

\* conversion int -> float, exact for |n| < 2^24
FromInt(n) == IF n < 0 THEN Normalize(1, -n, 0) ELSE Normalize(0, n, 0)

\* round to nearest, ties to even: q is the truncated 24-bit mantissa, rem
\* the discarded part out of unit
RoundMant(s, q, rem, unit, e) ==
    LET up == (2 * rem > unit) \/ (2 * rem = unit /\ q % 2 = 1)
        q1 == IF up THEN q + 1 ELSE q
    IN  IF q1 = TwoP24 THEN [s |-> s, m |-> TwoP23, e |-> e + 1]
        ELSE [s |-> s, m |-> q1, e |-> e]

RECURSIVE DivBits(_, _, _, _)
\* n steps of binary long division of r / d (r < d): <<quotient, remainder>>
DivBits(r, d, n, q) ==
    IF n = 0 THEN <<q, r>>
    ELSE IF 2 * r >= d THEN DivBits(2 * r - d, d, n - 1, 2 * q + 1)
    ELSE DivBits(2 * r, d, n - 1, 2 * q)

\* a / b in single precision (b # 0)
FDiv(a, b) ==
    LET sg == (a.s + b.s) % 2
    IN  IF a.m = 0 THEN [s |-> sg, m |-> 0, e |-> 0]
        ELSE IF a.m >= b.m
             THEN LET qr == DivBits(a.m - b.m, b.m, MantBits - 1, 1)
                  IN  RoundMant(sg, qr[1], qr[2], b.m, a.e - b.e - (MantBits - 1))
             ELSE LET qr == DivBits(a.m, b.m, MantBits, 0)
                  IN  RoundMant(sg, qr[1], qr[2], b.m, a.e - b.e - MantBits)

\* a * b in single precision
FMul(a, b) ==
    LET sg == (a.s + b.s) % 2
        ah == a.m \div TwoP12
        al == a.m % TwoP12
        bh == b.m \div TwoP12
        bl == b.m % TwoP12
        mid == ah * bl + al * bh
        lowsum == (mid % TwoP12) * TwoP12 + al * bl
        lo == lowsum % TwoP24
        hi == ah * bh + (mid \div TwoP12) + (lowsum \div TwoP24)
    IN  IF a.m = 0 \/ b.m = 0 THEN [s |-> sg, m |-> 0, e |-> 0]
        ELSE IF hi >= TwoP23
             THEN RoundMant(sg, hi, lo, TwoP24, a.e + b.e + MantBits)
             ELSE RoundMant(sg, 2 * hi + (lo \div TwoP23), lo % TwoP23, TwoP23,
                            a.e + b.e + MantBits - 1)

\* a <= b for non-negative floats
FLeq(a, b) ==
    \/ a.m = 0
    \/ b.m # 0 /\ (a.e < b.e \/ (a.e = b.e /\ a.m <= b.m))

(***************************************************************************)
(* dtostrf(val, 4, 2, str): val in fixed notation with 2 fractional        *)
(* digits, rounded to nearest on the exact binary value, right-justified   *)
(* in a field of at least 4 characters.  Defined for |val| < 2^24.         *)
(***************************************************************************)
CH_0 == 48
CH_DOT == 46
CH_MINUS == 45
CH_SPACE == 32

\* 10^prec for the precision 2 that displayFloat asks for
PrecScale == 100

\* round(m * 2^e * 100) for e <= 0
Hundredths(v) ==
    LET x == v.m * PrecScale
        k == -v.e
    IN  IF k = 0 THEN x
        ELSE IF k <= 30
             THEN LET d == 2 ^ k
                      q == x \div d
                      r == x % d
                  IN  IF (2 * r > d) \/ (2 * r = d /\ q % 2 = 1) THEN q + 1 ELSE q
        ELSE IF k = 31 THEN (IF x > 2 ^ 30 THEN 1 ELSE 0)
        ELSE 0

RECURSIVE DecDigits(_)
\* decimal digits of n >= 0, most significant first
DecDigits(n) ==
    IF n < 10 THEN <<CH_0 + n>>
    ELSE Append(DecDigits(n \div 10), CH_0 + (n % 10))

RECURSIVE PadLeft(_, _)
PadLeft(str, width) ==
    IF Len(str) >= width THEN str ELSE PadLeft(<<CH_SPACE>> \o str, width)

dtostrf(val, width) ==
    LET h == Hundredths(val)
        body == DecDigits(h \div PrecScale) \o <<CH_DOT>>
                \o <<CH_0 + ((h % PrecScale) \div 10), CH_0 + (h % 10)>>
        signed == IF val.s = 1 THEN <<CH_MINUS>> \o body ELSE body
    IN  PadLeft(signed, width)

(***************************************************************************)
(* Scaling of a filtered estimate, as computed in loop().                  *)
(***************************************************************************)
\* a voltage scale ten times too large
VoltScaleTenfold == FromInt(600)

VOLT_SCALE == FromInt(60)
\* 0.20f and 0.1f: the single precision values nearest to 1/5 and 1/10
CURRENT_SCALE == FDiv(FromInt(1), FromInt(5))
SHUNT_RESISTANCE == FDiv(FromInt(1), FromInt(10))
AMP_GAIN == FromInt(5)

\* scaledVoltAvg = VOLT_SCALE * (voltAvg / 1023.0f)
ScaleVolt(voltAvg) == FMul(VOLT_SCALE, FDiv(voltAvg, FromInt(ADC_FULL_SCALE)))

\* scaledCurrentAvg = (CURRENT_SCALE * (5.0f * (shuntVoltAvg / 1023.0f))) / 0.1f
ScaleCurrent(shuntVoltAvg) ==
    FDiv(FMul(CURRENT_SCALE,
              FMul(AMP_GAIN, FDiv(shuntVoltAvg, FromInt(ADC_FULL_SCALE)))),
         SHUNT_RESISTANCE)

(***************************************************************************)
(* State.                                                                  *)
(*  pc             position of the program                                 *)
(*  numSamples, i, sortedValues, returnval                                 *)
(*                 parameter, index, window and result of                  *)
(*                 analogReadMedianFiltered                                *)
(*  shadow         a second window that starts from other stack contents   *)
(*                 and receives the same samples (used to compare two      *)
(*                 calls that read the same sequence)                      *)
(*  seen           the samples read so far in the current call, as a bag   *)
(*  mode           how the ADC input is drawn when the sampler runs alone  *)
(*  scaledVoltAvg, scaledCurrentAvg   the two values of loop()             *)
(*  val, offset, str, valLen, si, digit, setDecimal                        *)
(*                 parameters and locals of displayFloat (si is its loop   *)
(*                 index i)                                                *)
(*  display        what each digit position of the MAX72XX shows           *)
(*  displayAtCall  display as it was when displayFloat was entered         *)
(*  events         the calls made to the ADC and to the display driver     *)
(*                 since the current iteration (or call) started           *)
(*  atEntry        the contents of the two windows when the sampler, run   *)
(*                 alone, was entered                                      *)
(*  prevDisplay    display as it was at the end of the previous iteration  *)
(***************************************************************************)
VARIABLES pc, numSamples, i, sortedValues, shadow, seen, returnval, mode,
          scaledVoltAvg, scaledCurrentAvg,
          val, offset, str, valLen, si, digit, setDecimal,
          display, displayAtCall, events, atEntry, prevDisplay

vars == <<pc, numSamples, i, sortedValues, shadow, seen, returnval, mode,
          scaledVoltAvg, scaledCurrentAvg,
          val, offset, str, valLen, si, digit, setDecimal,
          display, displayAtCall, events, atEntry, prevDisplay>>

samplerVars == <<numSamples, i, sortedValues, shadow, seen, returnval, mode, atEntry>>
scaledVars == <<scaledVoltAvg, scaledCurrentAvg>>
renderVars == <<val, offset, str, valLen, si, digit, setDecimal, displayAtCall>>

VOLT_AIN_PIN == "A0"
AMP_AIN_PIN == "A1"

(***************************************************************************)
(* Inputs.                                                                 *)
(***************************************************************************)
\* readings of the 10-bit ADC offered to the sampler when it runs alone
SampleVals == {0, 341, 682, 1023}
\* readings offered at step k of a ramp: the k-th value going up from 0 or
\* down from full scale (all-up is strictly increasing, all-down strictly
\* decreasing)
RampVals(k) == {k, ADC_FULL_SCALE - k}
\* readings offered inside the polling loop
LoopVals == {0, 1023}
\* a 16-bit int left on the stack where sortedValues is allocated
GarbageVals == {-32768, 512, 32767}

GarbageFills(n) == {[k \in 0..(n - 1) |-> g] : g \in GarbageVals}

(***************************************************************************)
(* analogReadMedianFiltered, main.cpp:100-130.                             *)
(***************************************************************************)
RECURSIVE ScanPosStrict(_, _, _, _)
\* the scan with a strict left comparison, which walks past a run of equal
\* values
ScanPosStrict(sv, value, n, j) ==
    IF j < n /\ ~(sv[j - 1] < value /\ sv[j] >= value)
    THEN ScanPosStrict(sv, value, n, j + 1)
    ELSE j

RECURSIVE ScanPos(_, _, _, _)
\* for(j = 1; j < i; j++) if(sortedValues[j-1]<=value && sortedValues[j]>=value) break;
ScanPos(sv, value, n, j) ==
    IF j < n /\ ~(sv[j - 1] <= value /\ sv[j] >= value)
    THEN ScanPos(sv, value, n, j + 1)
    ELSE j

\* the position chosen when the test i == 0 of line 106 is left out
InsertPosNoFirst(sv, value, n) ==
    IF value < sv[0] THEN 0 ELSE ScanPos(sv, value, n, 1)

\* the insert position j chosen for the n-th sample (n counted from 0)
InsertPos(sv, value, n) ==
    IF value < sv[0] \/ n = 0 THEN 0 ELSE ScanPos(sv, value, n, 1)

\* for(k = i; k > j; k--) sortedValues[k] = sortedValues[k-1]; sortedValues[j] = value;
ShiftInsert(sv, value, n, j) ==
    [k \in DOMAIN sv |-> IF k = j THEN value
                         ELSE IF k > j /\ k <= n THEN sv[k - 1]
                         ELSE sv[k]]

\* one iteration of the sampling loop on window sv
Insert(sv, value, n) == ShiftInsert(sv, value, n, InsertPos(sv, value, n))

RECURSIVE SumRange(_, _, _)
\* sv[lo] + ... + sv[hi - 1]
SumRange(sv, lo, hi) ==
    IF lo >= hi THEN 0 ELSE sv[lo] + SumRange(sv, lo + 1, hi)

\* first index of the averaged range, numSamples/2-5
MeanFrom(n) == (n \div 2) - HalfMean
\* an averaged range that stops one element early
MeanToShort(n) == (n \div 2) + HalfMean - 1

\* index after the averaged range, numSamples/2+5
MeanTo(n) == (n \div 2) + HalfMean

\* lines 124-129: the float sum of the averaged range (exact, below 2^24)
\* divided by 10
MidMean(sv, n) ==
    FDiv(FromInt(SumRange(sv, MeanFrom(n), MeanTo(n))), FromInt(MeanCount))

ReadEvent(pin) == [op |-> "analogRead", pin |-> pin]

\* entry of the call: the window is allocated over whatever the stack holds
SamplerEntry(n, fills) ==
    /\ numSamples' = n
    /\ sortedValues' \in fills
    /\ i' = 0
    /\ seen' = EmptyBag

\* one iteration of the loop at line 103 with the reading value from pin
SamplerStep(pin, value) ==
    /\ i < numSamples
    /\ sortedValues' = Insert(sortedValues, value, i)
    /\ seen' = seen (+) SetToBag({value})
    /\ i' = i + 1
    /\ events' = Append(events, ReadEvent(pin))

\* lines 124-129
SamplerReturn ==
    /\ i = numSamples
    /\ returnval' = MidMean(sortedValues, numSamples)

(***************************************************************************)
(* The display driver (LedControl on a MAX72XX).                           *)
(***************************************************************************)
Positions == 0..(NumDigits - 1)
Blank == [value |-> -1, dp |-> FALSE]
AllBlank == [p \in Positions |-> Blank]

\* a clear that leaves the digits as they are
clearDisplayNoop(d) == d

\* display.clearDisplay(DISPLAY_ADDRESS)
clearDisplay(d) == [p \in Positions |-> Blank]

\* display.setDigit(DISPLAY_ADDRESS, digit, value, dp): the driver shows the
\* hexadecimal digit and ignores a position or value out of its range
setDigit(d, pos, value, dp) ==
    IF pos \in Positions /\ value \in 0..15
    THEN [d EXCEPT ![pos] = [value |-> value, dp |-> dp]]
    ELSE d

ClearEvent == [op |-> "clearDisplay"]
DigitEvent(pos, value, dp, off) ==
    [op |-> "setDigit", digit |-> pos, value |-> value, dp |-> dp, offset |-> off]

(***************************************************************************)
(* displayFloat, main.cpp:68-91.                                           *)
(***************************************************************************)
\* (byte) valInt
ToByte(n) == n % 256

\* a length test that lets six characters through
FitsDisplayWide(len) == len > 0 /\ len <= MaxValLen + 1

\* line 72
FitsDisplay(len) == len > 0 /\ len <= MaxValLen

\* lines 69-77: format the value, test its length, set up the walk; next is
\* the position reached when the value is skipped
DisplayFloatEntry(v, off, walk, next) ==
    LET s == dtostrf(v, DTOSTRF_WIDTH)
    IN  /\ val' = v
        /\ offset' = off
        /\ str' = s
        /\ valLen' = Len(s)
        /\ displayAtCall' = display
        /\ IF FitsDisplay(Len(s))
           THEN /\ digit' = off
                /\ setDecimal' = FALSE
                /\ si' = Len(s) - 1
                /\ pc' = walk
           ELSE /\ UNCHANGED <<digit, setDecimal, si>>
                /\ pc' = next

\* the walk without the reset of setDecimal at line 87
DisplayFloatCharSticky ==
    /\ si >= 0
    /\ IF str[si + 1] = CH_DOT
       THEN /\ setDecimal' = TRUE
            /\ UNCHANGED <<digit, display, events>>
       ELSE /\ display' = setDigit(display, digit, ToByte(str[si + 1] - CH_0), setDecimal)
            /\ events' = Append(events, DigitEvent(digit, ToByte(str[si + 1] - CH_0),
                                                   setDecimal, offset))
            /\ digit' = digit + 1
            /\ UNCHANGED setDecimal
    /\ si' = si - 1
    /\ UNCHANGED <<val, offset, str, valLen, displayAtCall>>

\* the walk with a '.' that takes a digit position of its own
DisplayFloatCharDotSlot ==
    /\ si >= 0
    /\ IF str[si + 1] = CH_DOT
       THEN /\ setDecimal' = TRUE
            /\ digit' = digit + 1
            /\ UNCHANGED <<display, events>>
       ELSE /\ display' = setDigit(display, digit, ToByte(str[si + 1] - CH_0), setDecimal)
            /\ events' = Append(events, DigitEvent(digit, ToByte(str[si + 1] - CH_0),
                                                   setDecimal, offset))
            /\ digit' = digit + 1
            /\ setDecimal' = FALSE
    /\ si' = si - 1
    /\ UNCHANGED <<val, offset, str, valLen, displayAtCall>>

\* lines 78-89: one iteration of the walk, on the character str[si]
DisplayFloatChar ==
    /\ si >= 0
    /\ IF str[si + 1] = CH_DOT
       THEN /\ setDecimal' = TRUE
            /\ UNCHANGED <<digit, display, events>>
       ELSE /\ display' = setDigit(display, digit, ToByte(str[si + 1] - CH_0), setDecimal)
            /\ events' = Append(events, DigitEvent(digit, ToByte(str[si + 1] - CH_0),
                                                   setDecimal, offset))
            /\ digit' = digit + 1
            /\ setDecimal' = FALSE
    /\ si' = si - 1
    /\ UNCHANGED <<val, offset, str, valLen, displayAtCall>>

(***************************************************************************)
(* loop(), main.cpp:143-166, run forever by main(), lines 182-185.         *)
(***************************************************************************)
\* the offsets passed at lines 164 and 165
VoltOffset == 0
AmpOffset == 4

\* loop() with the clear moved behind the first displayFloat
AfterClearLate(stage) ==
    CASE stage = "volt" -> "amp_entry"
      [] stage = "amp" -> "showV_entry"
      [] stage = "showV" -> "clear"
      [] stage = "clear" -> "showI_entry"
      [] stage = "showI" -> "loop_end"

\* the statement that follows each statement of loop()
After(stage) ==
    CASE stage = "volt" -> "amp_entry"
      [] stage = "amp" -> "clear"
      [] stage = "clear" -> "showV_entry"
      [] stage = "showV" -> "showI_entry"
      [] stage = "showI" -> "loop_end"

ZeroWindow(n) == [k \in 0..(n - 1) |-> 0]

\* the window of a call lies over the stack left by the previous call or
\* over any other contents
StackContents == {sortedValues} \cup GarbageFills(SAMPLE_CNT)

\* state after setup(): the display is on and cleared (line 136)
Init ==
    /\ pc = "volt_entry"
    /\ numSamples = SAMPLE_CNT
    /\ i = 0
    /\ sortedValues = ZeroWindow(SAMPLE_CNT)
    /\ shadow = ZeroWindow(SAMPLE_CNT)
    /\ seen = EmptyBag
    /\ returnval = FZero
    /\ mode = "free"
    /\ scaledVoltAvg = FZero
    /\ scaledCurrentAvg = FZero
    /\ val = FZero
    /\ offset = 0
    /\ str = <<>>
    /\ valLen = 0
    /\ si = 0
    /\ digit = 0
    /\ setDecimal = FALSE
    /\ display = AllBlank
    /\ displayAtCall = AllBlank
    /\ events = <<>>
    /\ atEntry = [own |-> sortedValues, other |-> shadow]
    /\ prevDisplay = display

\* line 146, call
VoltEntry ==
    /\ pc = "volt_entry"
    /\ SamplerEntry(SAMPLE_CNT, StackContents)
    /\ pc' = "volt_loop"
    /\ UNCHANGED <<shadow, returnval, mode, atEntry, scaledVars, renderVars, display, events,
                   prevDisplay>>

\* line 146, one sample of the voltage channel
VoltRead ==
    /\ pc = "volt_loop"
    /\ \E value \in LoopVals : SamplerStep(VOLT_AIN_PIN, value)
    /\ UNCHANGED <<pc, numSamples, shadow, returnval, mode, atEntry, scaledVars, renderVars,
                   display, prevDisplay>>

\* lines 146-147, return and scaling
VoltReturn ==
    /\ pc = "volt_loop"
    /\ SamplerReturn
    /\ scaledVoltAvg' = ScaleVolt(returnval')
    /\ pc' = After("volt")
    /\ UNCHANGED <<numSamples, i, sortedValues, shadow, seen, mode, atEntry,
                   scaledCurrentAvg, renderVars, display, events, prevDisplay>>

\* line 157, call
AmpEntry ==
    /\ pc = "amp_entry"
    /\ SamplerEntry(SAMPLE_CNT, StackContents)
    /\ pc' = "amp_loop"
    /\ UNCHANGED <<shadow, returnval, mode, atEntry, scaledVars, renderVars, display, events,
                   prevDisplay>>

\* line 157, one sample of the current channel
AmpRead ==
    /\ pc = "amp_loop"
    /\ \E value \in LoopVals : SamplerStep(AMP_AIN_PIN, value)
    /\ UNCHANGED <<pc, numSamples, shadow, returnval, mode, atEntry, scaledVars, renderVars,
                   display, prevDisplay>>

\* lines 157-158, return and scaling
AmpReturn ==
    /\ pc = "amp_loop"
    /\ SamplerReturn
    /\ scaledCurrentAvg' = ScaleCurrent(returnval')
    /\ pc' = After("amp")
    /\ UNCHANGED <<numSamples, i, sortedValues, shadow, seen, mode, atEntry,
                   scaledVoltAvg, renderVars, display, events, prevDisplay>>

\* line 163
ClearDisplay ==
    /\ pc = "clear"
    /\ display' = clearDisplay(display)
    /\ events' = Append(events, ClearEvent)
    /\ pc' = After("clear")
    /\ UNCHANGED <<samplerVars, scaledVars, renderVars, prevDisplay>>

\* line 164, call
ShowVoltEntry ==
    /\ pc = "showV_entry"
    /\ DisplayFloatEntry(scaledVoltAvg, VoltOffset, "showV_loop", After("showV"))
    /\ UNCHANGED <<samplerVars, scaledVars, display, events, prevDisplay>>

\* line 164, one character
ShowVoltChar ==
    /\ pc = "showV_loop"
    /\ DisplayFloatChar
    /\ pc' = IF si = 0 THEN After("showV") ELSE pc
    /\ UNCHANGED <<samplerVars, scaledVars, prevDisplay>>

\* line 165, call
ShowAmpEntry ==
    /\ pc = "showI_entry"
    /\ DisplayFloatEntry(scaledCurrentAvg, AmpOffset, "showI_loop", After("showI"))
    /\ UNCHANGED <<samplerVars, scaledVars, display, events, prevDisplay>>

\* line 165, one character
ShowAmpChar ==
    /\ pc = "showI_loop"
    /\ DisplayFloatChar
    /\ pc' = IF si = 0 THEN After("showI") ELSE pc
    /\ UNCHANGED <<samplerVars, scaledVars, prevDisplay>>

\* lines 182-185: loop() has returned and is called again
LoopAgain ==
    /\ pc = "loop_end"
    /\ pc' = "volt_entry"
    /\ events' = <<>>
    /\ prevDisplay' = display
    /\ UNCHANGED <<samplerVars, scaledVars, renderVars, display>>

Next ==
    \/ VoltEntry \/ VoltRead \/ VoltReturn
    \/ AmpEntry \/ AmpRead \/ AmpReturn
    \/ ClearDisplay
    \/ ShowVoltEntry \/ ShowVoltChar
    \/ ShowAmpEntry \/ ShowAmpChar
    \/ LoopAgain

Spec == Init /\ [][Next]_vars

(***************************************************************************)
(* analogReadMedianFiltered alone: one call on a window of 10..MaxWindow   *)
(* samples, over any stack contents, with readings drawn from SampleVals   *)
(* or along a ramp.                                                        *)
(***************************************************************************)
InitSampler ==
    /\ pc = "s_entry"
    /\ numSamples \in MeanCount..MaxWindow
    /\ mode \in {"free", "ramp"}
    /\ i = 0
    /\ sortedValues = ZeroWindow(numSamples)
    /\ shadow = ZeroWindow(numSamples)
    /\ seen = EmptyBag
    /\ returnval = FZero
    /\ scaledVoltAvg = FZero
    /\ scaledCurrentAvg = FZero
    /\ val = FZero
    /\ offset = 0
    /\ str = <<>>
    /\ valLen = 0
    /\ si = 0
    /\ digit = 0
    /\ setDecimal = FALSE
    /\ display = AllBlank
    /\ displayAtCall = AllBlank
    /\ events = <<>>
    /\ atEntry = [own |-> sortedValues, other |-> shadow]
    /\ prevDisplay = display

SamplerCall ==
    /\ pc = "s_entry"
    /\ SamplerEntry(numSamples, GarbageFills(numSamples))
    /\ shadow' \in GarbageFills(numSamples)
    /\ atEntry' = [own |-> sortedValues', other |-> shadow']
    /\ pc' = "s_loop"
    /\ UNCHANGED <<returnval, mode, scaledVars, renderVars, display, events, prevDisplay>>

SamplerReadFree ==
    /\ pc = "s_loop"
    /\ mode = "free"
    /\ \E value \in SampleVals :
          /\ SamplerStep(VOLT_AIN_PIN, value)
          /\ shadow' = Insert(shadow, value, i)
    /\ UNCHANGED <<pc, numSamples, returnval, mode, atEntry, scaledVars, renderVars,
                   display, prevDisplay>>

SamplerReadRamp ==
    /\ pc = "s_loop"
    /\ mode = "ramp"
    /\ \E value \in RampVals(i) :
          /\ SamplerStep(VOLT_AIN_PIN, value)
          /\ shadow' = Insert(shadow, value, i)
    /\ UNCHANGED <<pc, numSamples, returnval, mode, atEntry, scaledVars, renderVars,
                   display, prevDisplay>>

SamplerDone ==
    /\ pc = "s_loop"
    /\ SamplerReturn
    /\ pc' = "s_done"
    /\ UNCHANGED <<numSamples, i, sortedValues, shadow, seen, mode, atEntry, scaledVars,
                   renderVars, display, events, prevDisplay>>

NextSampler == SamplerCall \/ SamplerReadFree \/ SamplerReadRamp \/ SamplerDone

SpecSampler == InitSampler /\ [][NextSampler]_vars

(***************************************************************************)
(* displayFloat alone: one call on a value and an offset, over a display   *)
(* that shows anything.                                                    *)
(***************************************************************************)
\* n / 100 as a float literal
Dec(n) == FDiv(FromInt(n), FromInt(PrecScale))

\* 0.00, 0.05, 9.99, 12.45, 59.99, 99.99, 100.00, 123.45, -0.01, -1.23 and
\* the scaled voltage of the estimate 682
RenderVals ==
    {Dec(h) : h \in {0, 5, 999, 1245, 5999, 9999, 10000, 12345, -1, -123}}
    \cup {ScaleVolt(FromInt(682))}

AllEights == [p \in Positions |-> [value |-> 8, dp |-> TRUE]]
InitDisplays == {AllBlank, AllEights}

InitRender ==
    /\ pc = "r_entry"
    /\ val \in RenderVals
    /\ offset \in {VoltOffset, AmpOffset}
    /\ display \in InitDisplays
    /\ displayAtCall = display
    /\ numSamples = SAMPLE_CNT
    /\ i = 0
    /\ sortedValues = ZeroWindow(SAMPLE_CNT)
    /\ shadow = ZeroWindow(SAMPLE_CNT)
    /\ seen = EmptyBag
    /\ returnval = FZero
    /\ mode = "free"
    /\ scaledVoltAvg = FZero
    /\ scaledCurrentAvg = FZero
    /\ str = <<>>
    /\ valLen = 0
    /\ si = 0
    /\ digit = 0
    /\ setDecimal = FALSE
    /\ events = <<>>
    /\ atEntry = [own |-> sortedValues, other |-> shadow]
    /\ prevDisplay = display

RenderCall ==
    /\ pc = "r_entry"
    /\ DisplayFloatEntry(val, offset, "r_loop", "r_done")
    /\ UNCHANGED <<samplerVars, scaledVars, display, events, prevDisplay>>

RenderChar ==
    /\ pc = "r_loop"
    /\ DisplayFloatChar
    /\ pc' = IF si = 0 THEN "r_done" ELSE pc
    /\ UNCHANGED <<samplerVars, scaledVars, prevDisplay>>

NextRender == RenderCall \/ RenderChar

SpecRender == InitRender /\ [][NextRender]_vars

(***************************************************************************)
(* Reference definitions used by the properties.                           *)
(***************************************************************************)
RECURSIVE BagToSorted(_)
\* the ascending sequence (indexed from 1) of the elements of a bag
BagToSorted(b) ==
    IF BagToSet(b) = {} THEN <<>>
    ELSE LET mn == CHOOSE x \in BagToSet(b) : \A y \in BagToSet(b) : x <= y
         IN  <<mn>> \o BagToSorted(b (-) SetToBag({mn}))

RECURSIVE PrefixBag(_, _)
\* the bag of sv[0..n-1]
PrefixBag(sv, n) ==
    IF n = 0 THEN EmptyBag ELSE PrefixBag(sv, n - 1) (+) SetToBag({sv[n - 1]})

RECURSIVE SeqSum(_, _, _)
\* q[a] + ... + q[b]
SeqSum(q, a, b) == IF a > b THEN 0 ELSE q[a] + SeqSum(q, a + 1, b)

RECURSIVE NonDotIdx(_, _, _)
\* the 0-based indices c >= from of the characters of str other than '.',
\* from the right end leftwards
NonDotIdx(q, c, from) ==
    IF c < from THEN <<>>
    ELSE IF q[c + 1] = CH_DOT THEN NonDotIdx(q, c - 1, from)
    ELSE <<c>> \o NonDotIdx(q, c - 1, from)

\* the setDigit calls expected for the characters q[from..] of a string: the
\* k-th character that is not '.', counted from the right, goes to position
\* off + k and carries the decimal point exactly when the character to its
\* right is '.'
RefEvents(q, from, off) ==
    LET idx == NonDotIdx(q, Len(q) - 1, from)
    IN  [k \in 1..Len(idx) |->
            DigitEvent(off + k - 1, (q[idx[k] + 1] - 48) % 256,
                       idx[k] + 2 <= Len(q) /\ q[idx[k] + 2] = 46, off)]

\* place of an event in the order of one iteration of loop()
Rank(ev) ==
    IF ev.op = "analogRead" THEN (IF ev.pin = "A0" THEN 1 ELSE 2)
    ELSE IF ev.op = "clearDisplay" THEN 3
    ELSE IF ev.offset = 0 THEN 4 ELSE 5

Count(r) == Cardinality({k \in 1..Len(events) : Rank(events[k]) = r})

SetDigitEvents == {k \in 1..Len(events) : events[k].op = "setDigit"}

InSampler == pc \in {"s_loop", "s_done"}
InRender == pc \in {"r_loop", "r_done"}

(***************************************************************************)
(* Properties.                                                             *)
(***************************************************************************)

\* C1: when analogReadMedianFiltered returns on a window of W >= 10 samples,
\* the result is the sum of the elements of rank W/2-5 up to and excluding
\* W/2+5 of the ascending sort of the samples read, divided by 10.
C1_MedianMean ==
    pc = "s_done" =>
        LET ref == BagToSorted(seen)
            w == numSamples
        IN  /\ Len(ref) = w
            /\ returnval = FDiv(FromInt(SeqSum(ref, (w \div 2) - 5 + 1, (w \div 2) + 5)),
                                FromInt(10))

C1_Witness ==
    /\ pc = "s_done"
    /\ numSamples = 11
    /\ mode = "free"
    /\ Cardinality(BagToSet(seen)) >= 3
    /\ sortedValues[0] < sortedValues[1]
    /\ returnval.m # 0

\* C2: after the insertion of the i-th sample the first i+1 elements of
\* sortedValues are ascending and are a permutation of the samples read so
\* far, and after W inserts the window is the sort of the input.
C2_SortedPrefix ==
    InSampler =>
        /\ \A k \in 1..(i - 1) : sortedValues[k - 1] <= sortedValues[k]
        /\ PrefixBag(sortedValues, i) = seen
        /\ i = numSamples =>
              [k \in 1..numSamples |-> sortedValues[k - 1]] = BagToSorted(seen)

\* a call that has read a strictly decreasing sequence
C2_Witness ==
    /\ pc = "s_done"
    /\ mode = "ramp"
    /\ \A k \in 0..(numSamples - 1) : sortedValues[k] = 1023 - (numSamples - 1) + k

\* C3: displayFloat emits one setDigit per character other than '.', walking
\* right to left, at positions startOffset, startOffset+1, ...; a '.' emits
\* nothing, keeps the cursor and sets the pending flag, which is true on
\* the next emitted digit only.
C3_WalkEmits ==
    (InRender /\ valLen \in 1..5) =>
        /\ events = RefEvents(str, si + 1, offset)
        /\ digit = offset + Len(events)
        /\ setDecimal <=> (si + 2 <= valLen /\ str[si + 2] = 46)

C3_Witness ==
    /\ pc = "r_done"
    /\ valLen = 5
    /\ offset = 4
    /\ Len(events) = 4
    /\ events[3].dp
    /\ ~events[4].dp

V682 == ScaleVolt(FromInt(682))
Str4000 == <<52, 48, 46, 48, 48>>
ShownV682 == pc = "r_done" /\ val = V682 /\ offset = 0

\* C4 as stated: for the estimate 682 (string "40.00", offset 0) the
\* assignments go to positions 0,1,2,3 and the decimal flag is on the
\* assignment before the '.' in scan order, the tenths digit (position 1),
\* and on no other.
C4_Original ==
    ShownV682 =>
        /\ str = Str4000
        /\ Len(events) = 4
        /\ \A k \in 1..4 : events[k].digit = k - 1 /\ (events[k].dp <=> k = 2)

\* C4: for the estimate 682 (string "40.00", offset 0) the assignments go
\* to positions 0,1,2,3 with values 0,0,0,4 and the decimal flag is on the
\* assignment that follows the '.' in scan order, the units digit '0' of
\* "40" (position 2), and on no other.
C4_Amended ==
    ShownV682 =>
        /\ str = Str4000
        /\ Len(events) = 4
        /\ \A k \in 1..4 : events[k].digit = k - 1 /\ (events[k].dp <=> k = 3)
        /\ [k \in 1..4 |-> events[k].value] = <<0, 0, 0, 4>>

C4_Witness ==
    /\ ShownV682
    /\ display[2] = [value |-> 0, dp |-> TRUE]
    /\ display[3] = [value |-> 4, dp |-> FALSE]

\* C5: when the formatted string is longer than 5 characters, displayFloat
\* issues no setDigit and leaves every display position as it was.
C5_OverflowNoOp ==
    (InRender /\ valLen > 5) =>
        /\ pc = "r_done"
        /\ events = <<>>
        /\ display = displayAtCall

C5_Witness ==
    /\ pc = "r_done"
    /\ str = <<49, 48, 48, 46, 48, 48>>
    /\ display = AllEights

\* C6: every digit value that displayFloat sends to the display driver is
\* in 0..9, for every value whose string passes the length check.
C6_DigitRange ==
    \A k \in SetDigitEvents : events[k].value \in 0..9

\* C7: in every iteration the events are, in this order, the W reads of the
\* voltage channel, the W reads of the current channel, one clearDisplay,
\* the setDigit writes of the voltage value, the setDigit writes of the
\* current value; no setDigit comes before the clearDisplay.
C7_IterationOrder ==
    /\ \A a, b \in 1..Len(events) : a < b => Rank(events[a]) <= Rank(events[b])
    /\ Count(1) <= SAMPLE_CNT /\ Count(2) <= SAMPLE_CNT /\ Count(3) <= 1
    /\ Count(2) > 0 => Count(1) = SAMPLE_CNT
    /\ Count(3) > 0 => Count(2) = SAMPLE_CNT
    /\ Count(4) + Count(5) > 0 => Count(3) = 1
    /\ pc = "loop_end" =>
          Count(1) = SAMPLE_CNT /\ Count(2) = SAMPLE_CNT /\ Count(3) = 1

C7_Witness ==
    /\ pc = "loop_end"
    /\ Count(4) = 4
    /\ Count(5) = 3

\* C9: with all samples in 0..1023 neither displayFloat call is skipped:
\* the voltage is at most 60.00 and the current at most 10.00, each string
\* has 4 or 5 characters, each render emits 3 or 4 setDigit calls with
\* values in 0..9, the voltage within positions 0..3 and the current within
\* 4..7.
C9_BothRendered ==
    /\ \A k \in SetDigitEvents :
          /\ events[k].value \in 0..9
          /\ events[k].offset = 0 => events[k].digit \in 0..3
          /\ events[k].offset = 4 => events[k].digit \in 4..7
    /\ pc \in {"showV_loop", "showI_entry", "showI_loop", "loop_end"} => valLen \in {4, 5}
    /\ pc \in {"showI_entry", "showI_loop", "loop_end"} => Count(4) \in {3, 4}
    /\ pc = "loop_end" =>
          /\ Count(5) \in {3, 4}
          /\ scaledVoltAvg.s = 0 /\ FLeq(scaledVoltAvg, FromInt(60))
          /\ scaledCurrentAvg.s = 0 /\ FLeq(scaledCurrentAvg, FromInt(10))

C9_Witness ==
    /\ pc = "loop_end"
    /\ scaledVoltAvg = FromInt(60)
    /\ scaledCurrentAvg = FromInt(10)
    /\ Count(4) = 4
    /\ Count(5) = 4

\* C8: the value returned depends only on the samples read during the call:
\* a window that started from other stack contents and received the same
\* samples holds the same elements and gives the same result.
C8_GarbageIndependent ==
    InSampler =>
        /\ \A k \in 0..(i - 1) : sortedValues[k] = shadow[k]
        /\ pc = "s_done" => returnval = MidMean(shadow, numSamples)

C8_Witness ==
    /\ pc = "s_done"
    /\ atEntry.own[0] < 0
    /\ atEntry.other[0] > 1023
    /\ returnval.m # 0

\* C10: at the end of every iteration each display position is blank or
\* shows a digit written by a displayFloat call of that iteration.
C10_NoStaleDigit ==
    pc = "loop_end" =>
        \A p \in Positions :
            \/ display[p] = Blank
            \/ \E k \in SetDigitEvents :
                  /\ events[k].digit = p
                  /\ display[p] = [value |-> events[k].value, dp |-> events[k].dp]

\* a value that shrank from 4 digits to 3
C10_Witness ==
    /\ pc = "loop_end"
    /\ prevDisplay[3] # Blank
    /\ display[3] = Blank
    /\ display[2] # Blank

====
